---- MODULE Spec2Model ----
(***************************************************************************)
(* Model of scripts/build_toolchain.py: the command-line pipeline          *)
(* (main, build_toolchain), the revision extractor                         *)
(* (get_chromium_and_llvm_info), the external build step (build_llvm),     *)
(* the toolchain locator (verify_toolchain) and the packager               *)
(* (package_toolchain).                                                    *)
(*                                                                         *)
(* Strings the code takes apart are sequences of tokens whose              *)
(* concatenation is the string: a path rule is split at "$V", "*", a       *)
(* leading "bin/" and a trailing ".exe"; the DEPS text is split into the   *)
(* literals of the pattern and single characters.                          *)
(***************************************************************************)
EXTENDS Naturals, Integers, Sequences, FiniteSets, TLC

VARIABLES
    platform,        \* sys.platform of the host
    mode,            \* the command-line mode chosen by main
    pc,              \* position of the process
    runs,            \* invocations started so far
    trace,           \* pipeline stages entered by the current invocation, in order
    status,          \* exit status of the invocation, -1 while it runs
    cause,           \* what ended the invocation
    chromiumExists,  \* chromium_dir.exists()
    depsText,        \* deps_content read from DEPS
    revision,        \* llvm_revision
    printed,         \* what main printed on stdout
    buildResult,     \* outcome of the external build.py
    bootstrap,       \* third_party/llvm-bootstrap-install
    release,         \* third_party/llvm-build/Release+Asserts
    toolchainDir,    \* what verify_toolchain returned
    stamp,           \* STAMP_FILE as read by package_toolchain
    staging,         \* the package directory Path(package_name)
    archive,         \* the file package_name + ".tar.xz"
    stagingAtStart,  \* the package directory when the invocation started
    archiveAtStart,  \* the archive file when the invocation started
    want,            \* the manifest of package_toolchain
    reported,        \* wanted files logged as missing by the verification loop
    pkgState,        \* state of the packaging run
    pkgTrace         \* states the packaging run has passed through

vars == <<platform, mode, pc, runs, trace, status, cause, chromiumExists,
          depsText, revision, printed, buildResult, bootstrap, release,
          toolchainDir, stamp, staging, archive, stagingAtStart,
          archiveAtStart, want, reported, pkgState, pkgTrace>>

---------------------------------------------------------------------------
(* Bounds of the model *)

\* invocations of the script in one behaviour
MaxRuns == 2
\* mandatory files absent from a built release tree
MaxMissing == 2
\* digits in each numeric field of a DEPS package name
MaxDigits == 1
\* longest hash in a DEPS package name
MaxHashLen == 9

---------------------------------------------------------------------------
(* Values imported from Chromium's tools/clang/scripts/update.py *)

PACKAGE_VERSION == "llvmorg-19-init-1234-abcdef12-1"
RELEASE_VERSION == "19"
STAMP_FILENAME == "cr_build_revision"
package_name == <<"clang-", PACKAGE_VERSION>>
archive_path == package_name \o <<".tar.xz">>

Platforms == {"linux", "darwin", "win32"}
Modes == {"build", "package_only", "revision_only"}

Range(s) == {s[i] : i \in 1..Len(s)}

---------------------------------------------------------------------------
(* package_toolchain: the wanted-file manifest *)

exe_ext(p) == IF p = "win32" THEN <<".exe">> ELSE <<>>

WantBase(p) ==
    { <<STAMP_FILENAME>>,
      <<"bin/", "llvm-pdbutil">> \o exe_ext(p),
      <<"bin/", "llvm-symbolizer">> \o exe_ext(p),
      <<"bin/", "llvm-undname">> \o exe_ext(p),
      <<"lib/clang/", "$V", "/include/", "*">>,
      <<"lib/clang/", "$V", "/share/asan_", "*", "list.txt">>,
      <<"lib/clang/", "$V", "/share/cfi_", "*", "list.txt">> }

WantWin32 ==
    { <<"bin/", "clang-cl", ".exe">>,
      <<"bin/", "lld-link", ".exe">>,
      <<"bin/", "llvm-ml", ".exe">> }

WantNonWin32 ==
    { <<"bin/", "clang">>,
      <<"bin/", "lld">>,
      <<"bin/", "llvm-ar">>,
      <<"bin/", "llvm-ml">>,
      <<"bin/", "llvm-readobj">> }

WantNonDarwin ==
    { <<"lib/clang/", "$V", "/lib/", "aarch64-unknown-fuchsia", "/libclang_rt.builtins.a">>,
      <<"lib/clang/", "$V", "/lib/", "x86_64-unknown-fuchsia", "/libclang_rt.builtins.a">>,
      <<"lib/clang/", "$V", "/lib/", "x86_64-unknown-fuchsia", "/libclang_rt.profile.a">>,
      <<"lib/clang/", "$V", "/lib/", "x86_64-unknown-fuchsia", "/libclang_rt.asan.so">>,
      <<"lib/clang/", "$V", "/lib/", "x86_64-unknown-fuchsia", "/libclang_rt.asan-preinit.a">>,
      <<"lib/clang/", "$V", "/lib/", "x86_64-unknown-fuchsia", "/libclang_rt.asan_static.a">> }

WantLinux ==
    { <<"bin/", "llvm-objcopy">>,
      <<"bin/", "llvm-nm">>,
      <<"lib/clang/", "$V", "/lib/", "aarch64-unknown-linux-gnu", "/libclang_rt.asan.a">>,
      <<"lib/clang/", "$V", "/lib/", "aarch64-unknown-linux-gnu", "/libclang_rt.asan.a.syms">>,
      <<"lib/clang/", "$V", "/lib/", "i386-unknown-linux-gnu", "/libclang_rt.asan.a">>,
      <<"lib/clang/", "$V", "/lib/", "x86_64-unknown-linux-gnu", "/libclang_rt.asan.a">>,
      <<"lib/clang/", "$V", "/lib/", "x86_64-unknown-linux-gnu", "/libclang_rt.asan.a.syms">>,
      <<"lib/clang/", "$V", "/lib/", "aarch64-unknown-linux-gnu", "/libclang_rt.asan_static.a">>,
      <<"lib/clang/", "$V", "/lib/", "i386-unknown-linux-gnu", "/libclang_rt.asan_static.a">>,
      <<"lib/clang/", "$V", "/lib/", "x86_64-unknown-linux-gnu", "/libclang_rt.asan_static.a">>,
      <<"lib/clang/", "$V", "/lib/", "aarch64-unknown-linux-gnu", "/libclang_rt.asan_cxx.a">>,
      <<"lib/clang/", "$V", "/lib/", "aarch64-unknown-linux-gnu", "/libclang_rt.asan_cxx.a.syms">>,
      <<"lib/clang/", "$V", "/lib/", "i386-unknown-linux-gnu", "/libclang_rt.asan_cxx.a">>,
      <<"lib/clang/", "$V", "/lib/", "x86_64-unknown-linux-gnu", "/libclang_rt.asan_cxx.a">>,
      <<"lib/clang/", "$V", "/lib/", "x86_64-unknown-linux-gnu", "/libclang_rt.asan_cxx.a.syms">>,
      <<"lib/clang/", "$V", "/lib/", "linux", "/libclang_rt.asan-aarch64-android.so">>,
      <<"lib/clang/", "$V", "/lib/", "linux", "/libclang_rt.asan-arm-android.so">>,
      <<"lib/clang/", "$V", "/lib/", "linux", "/libclang_rt.asan-i686-android.so">>,
      <<"lib/clang/", "$V", "/lib/", "linux", "/libclang_rt.asan-riscv64-android.so">>,
      <<"lib/clang/", "$V", "/lib/", "linux", "/libclang_rt.asan_static-aarch64-android.a">>,
      <<"lib/clang/", "$V", "/lib/", "linux", "/libclang_rt.asan_static-arm-android.a">>,
      <<"lib/clang/", "$V", "/lib/", "linux", "/libclang_rt.asan_static-i686-android.a">>,
      <<"lib/clang/", "$V", "/lib/", "linux", "/libclang_rt.asan_static-riscv64-android.a">>,
      <<"lib/clang/", "$V", "/lib/", "linux", "/libclang_rt.builtins-aarch64-android.a">>,
      <<"lib/clang/", "$V", "/lib/", "linux", "/libclang_rt.builtins-arm-android.a">>,
      <<"lib/clang/", "$V", "/lib/", "linux", "/libclang_rt.builtins-i686-android.a">>,
      <<"lib/clang/", "$V", "/lib/", "linux", "/libclang_rt.builtins-x86_64-android.a">>,
      <<"lib/clang/", "$V", "/lib/", "linux", "/libclang_rt.builtins-riscv64-android.a">>,
      <<"lib/clang/", "$V", "/lib/", "aarch64-unknown-linux-gnu", "/libclang_rt.builtins.a">>,
      <<"lib/clang/", "$V", "/lib/", "armv7-unknown-linux-gnueabihf", "/libclang_rt.builtins.a">>,
      <<"lib/clang/", "$V", "/lib/", "i386-unknown-linux-gnu", "/libclang_rt.builtins.a">>,
      <<"lib/clang/", "$V", "/lib/", "x86_64-unknown-linux-gnu", "/libclang_rt.builtins.a">>,
      <<"lib/clang/", "$V", "/lib/", "aarch64-unknown-linux-gnu", "/clang_rt.crtbegin.o">>,
      <<"lib/clang/", "$V", "/lib/", "aarch64-unknown-linux-gnu", "/clang_rt.crtend.o">>,
      <<"lib/clang/", "$V", "/lib/", "armv7-unknown-linux-gnueabihf", "/clang_rt.crtbegin.o">>,
      <<"lib/clang/", "$V", "/lib/", "armv7-unknown-linux-gnueabihf", "/clang_rt.crtend.o">>,
      <<"lib/clang/", "$V", "/lib/", "x86_64-unknown-linux-gnu", "/clang_rt.crtbegin.o">>,
      <<"lib/clang/", "$V", "/lib/", "x86_64-unknown-linux-gnu", "/clang_rt.crtend.o">>,
      <<"lib/clang/", "$V", "/lib/", "linux", "/libclang_rt.hwasan-aarch64-android.so">>,
      <<"lib/clang/", "$V", "/lib/", "linux", "/libclang_rt.hwasan-preinit-aarch64-android.a">>,
      <<"lib/clang/", "$V", "/lib/", "linux", "/libclang_rt.hwasan-riscv64-android.so">>,
      <<"lib/clang/", "$V", "/lib/", "linux", "/libclang_rt.hwasan-preinit-riscv64-android.a">>,
      <<"lib/clang/", "$V", "/lib/", "x86_64-unknown-linux-gnu", "/libclang_rt.msan.a">>,
      <<"lib/clang/", "$V", "/lib/", "x86_64-unknown-linux-gnu", "/libclang_rt.msan.a.syms">>,
      <<"lib/clang/", "$V", "/lib/", "x86_64-unknown-linux-gnu", "/libclang_rt.msan_cxx.a">>,
      <<"lib/clang/", "$V", "/lib/", "x86_64-unknown-linux-gnu", "/libclang_rt.msan_cxx.a.syms">>,
      <<"lib/clang/", "$V", "/lib/", "aarch64-unknown-linux-gnu", "/libclang_rt.profile.a">>,
      <<"lib/clang/", "$V", "/lib/", "armv7-unknown-linux-gnueabihf", "/libclang_rt.profile.a">>,
      <<"lib/clang/", "$V", "/lib/", "i386-unknown-linux-gnu", "/libclang_rt.profile.a">>,
      <<"lib/clang/", "$V", "/lib/", "x86_64-unknown-linux-gnu", "/libclang_rt.profile.a">>,
      <<"lib/clang/", "$V", "/lib/", "linux", "/libclang_rt.profile-i686-android.a">>,
      <<"lib/clang/", "$V", "/lib/", "linux", "/libclang_rt.profile-x86_64-android.a">>,
      <<"lib/clang/", "$V", "/lib/", "linux", "/libclang_rt.profile-aarch64-android.a">>,
      <<"lib/clang/", "$V", "/lib/", "linux", "/libclang_rt.profile-arm-android.a">>,
      <<"lib/clang/", "$V", "/lib/", "linux", "/libclang_rt.profile-riscv64-android.a">>,
      <<"lib/clang/", "$V", "/lib/", "x86_64-unknown-linux-gnu", "/libclang_rt.tsan.a">>,
      <<"lib/clang/", "$V", "/lib/", "x86_64-unknown-linux-gnu", "/libclang_rt.tsan.a.syms">>,
      <<"lib/clang/", "$V", "/lib/", "x86_64-unknown-linux-gnu", "/libclang_rt.tsan_cxx.a">>,
      <<"lib/clang/", "$V", "/lib/", "x86_64-unknown-linux-gnu", "/libclang_rt.tsan_cxx.a.syms">>,
      <<"lib/clang/", "$V", "/lib/", "aarch64-unknown-linux-gnu", "/libclang_rt.ubsan_standalone.a">>,
      <<"lib/clang/", "$V", "/lib/", "aarch64-unknown-linux-gnu", "/libclang_rt.ubsan_standalone.a.syms">>,
      <<"lib/clang/", "$V", "/lib/", "i386-unknown-linux-gnu", "/libclang_rt.ubsan_standalone.a">>,
      <<"lib/clang/", "$V", "/lib/", "x86_64-unknown-linux-gnu", "/libclang_rt.ubsan_standalone.a">>,
      <<"lib/clang/", "$V", "/lib/", "x86_64-unknown-linux-gnu", "/libclang_rt.ubsan_standalone.a.syms">>,
      <<"lib/clang/", "$V", "/lib/", "aarch64-unknown-linux-gnu", "/libclang_rt.ubsan_standalone_cxx.a">>,
      <<"lib/clang/", "$V", "/lib/", "aarch64-unknown-linux-gnu", "/libclang_rt.ubsan_standalone_cxx.a.syms">>,
      <<"lib/clang/", "$V", "/lib/", "i386-unknown-linux-gnu", "/libclang_rt.ubsan_standalone_cxx.a">>,
      <<"lib/clang/", "$V", "/lib/", "x86_64-unknown-linux-gnu", "/libclang_rt.ubsan_standalone_cxx.a">>,
      <<"lib/clang/", "$V", "/lib/", "x86_64-unknown-linux-gnu", "/libclang_rt.ubsan_standalone_cxx.a.syms">>,
      <<"lib/clang/", "$V", "/lib/", "linux", "/libclang_rt.ubsan_standalone-aarch64-android.so">>,
      <<"lib/clang/", "$V", "/lib/", "linux", "/libclang_rt.ubsan_standalone-arm-android.so">>,
      <<"lib/clang/", "$V", "/lib/", "linux", "/libclang_rt.ubsan_standalone-riscv64-android.so">>,
      <<"lib/clang/", "$V", "/share/msan_", "*", "list.txt">> }


\* want_rules with a fault: the Linux rules are added on every host that is
\* not Windows
want_rules_linux_nested(p) ==
    WantBase(p)
      \cup (IF p = "win32"
              THEN WantWin32
              ELSE WantNonWin32 \cup (IF p # "darwin" THEN WantNonDarwin ELSE {})
                     \cup WantLinux)

\* lines 211-344: the rule set before the version placeholder is replaced
want_rules(p) ==
    WantBase(p)
      \cup (IF p = "win32"
              THEN WantWin32
              ELSE WantNonWin32 \cup (IF p # "darwin" THEN WantNonDarwin ELSE {}))
      \cup (IF p = "linux" THEN WantLinux ELSE {})

\* w.replace('$V', RELEASE_VERSION)
ReplaceV(w) == [i \in 1..Len(w) |-> IF w[i] = "$V" THEN RELEASE_VERSION ELSE w[i]]

\* line 347: the manifest used by verification and staging
Manifest(p) == {ReplaceV(w) : w \in want_rules(p)}

\* '*' in w
IsGlob(w) == "*" \in Range(w)

---------------------------------------------------------------------------
(* The file system *)

\* A toolchain directory: whether it exists, whether its bin/ exists, and
\* the files in it (relative paths).
NoDir == [exists |-> FALSE, bin |-> FALSE, files |-> {}]
EmptyDir == [exists |-> TRUE, bin |-> FALSE, files |-> {}]
EmptyBinDir == [exists |-> TRUE, bin |-> TRUE, files |-> {}]

\* (dir / w).exists()
PathExists(dir, w) == dir.exists /\ w \in dir.files

Mandatory(p) == {w \in Manifest(p) : ~IsGlob(w)}

\* The mandatory files a build may have failed to produce.
Probes(p) ==
    { <<STAMP_FILENAME>>,
      <<"bin/", "llvm-symbolizer">> \o exe_ext(p),
      IF p = "win32" THEN <<"bin/", "lld-link", ".exe">> ELSE <<"bin/", "lld">> }

\* Files outside the manifest that a build leaves in the tree.
ExtraFiles ==
    { {},
      {<<"bin/", "clang++">>},
      {<<"lib/clang/", RELEASE_VERSION, "/include/", "stddef.h">>} }

ReleaseTrees(p) ==
    {NoDir, EmptyDir, EmptyBinDir}
      \cup { [exists |-> TRUE, bin |-> TRUE, files |-> (Mandatory(p) \ m) \cup x] :
               m \in {s \in SUBSET Probes(p) : Cardinality(s) <= MaxMissing},
               x \in ExtraFiles }

BootstrapTrees ==
    {NoDir, EmptyDir, EmptyBinDir}
      \cup { [exists |-> TRUE, bin |-> TRUE, files |-> x] :
               x \in { {<<"bin/", "clang">>},
                       {<<"bin/", "clang">>, <<"bin/", "clang++">>, <<"bin/", "lld">>} } }

\* The package directory: files copied into it and symbolic links made in it.
NoStaging == [exists |-> FALSE, files |-> {}, links |-> {}]
StaleStaging == [exists |-> TRUE, files |-> {<<"bin/", "clang">>}, links |-> {}]

\* The archive file: absent, or a tar.xz with the given members.
NoArchive == [exists |-> FALSE, members |-> {}]

\* STAMP_FILE: absent, or its text (a trailing newline is a token of its own).
StampFiles ==
    { [exists |-> FALSE, text |-> <<>>],
      [exists |-> TRUE, text |-> <<PACKAGE_VERSION>>],
      [exists |-> TRUE, text |-> <<PACKAGE_VERSION, "\n">>],
      [exists |-> TRUE, text |-> <<"llvmorg-18-init-99-0123abcd-2", "\n">>] }

Whitespace == {"\n", " "}

\* str.rstrip()
RECURSIVE rstrip(_)
rstrip(s) ==
    IF s # <<>> /\ s[Len(s)] \in Whitespace
      THEN rstrip(SubSeq(s, 1, Len(s) - 1))
      ELSE s

---------------------------------------------------------------------------
(* get_chromium_and_llvm_info: the revision extractor *)

MinHashLen == 8

Digits == {"1", "9"}
Letters == {"a", "f", "i", "m", "n"}
Alnum == Digits \cup Letters

\* length of the longest run of characters of class S starting at t[i]
RECURSIVE RunLen(_, _, _)
RunLen(t, i, S) ==
    IF i > Len(t) \/ t[i] \notin S THEN 0 ELSE 1 + RunLen(t, i + 1, S)

At(t, i) == IF i \in 1..Len(t) THEN t[i] ELSE "<end>"

\* The pattern clang-llvmorg-\d+-init-\d+-[a-zA-Z0-9]{8,}-\d+ matched at
\* position i. Every quantified class is followed by a character outside the
\* class, so a match takes each run whole.
MatchAt(t, i) ==
    LET n1 == RunLen(t, i + 1, Digits)
        p2 == i + 1 + n1
        n2 == RunLen(t, p2 + 1, Digits)
        p3 == p2 + 1 + n2
        n3 == RunLen(t, p3 + 1, Alnum)
        p4 == p3 + 1 + n3
        n4 == RunLen(t, p4 + 1, Digits)
    IN  [ ok    |-> /\ At(t, i) = "clang-llvmorg-"
                    /\ n1 >= 1
                    /\ At(t, p2) = "-init-"
                    /\ n2 >= 1
                    /\ At(t, p3) = "-"
                    /\ n3 >= MinHashLen
                    /\ At(t, p4) = "-"
                    /\ n4 >= 1,
          major |-> SubSeq(t, i + 1, i + n1),
          minor |-> SubSeq(t, p2 + 1, p2 + n2),
          hash  |-> SubSeq(t, p3 + 1, p3 + n3) ]

NoMatch == <<>>

\* re.search: the groups of the leftmost match, NoMatch when there is none.
\* The primary pattern (line 80) captures major, minor and hash.
search_primary(t) ==
    LET hits == {i \in 1..Len(t) : MatchAt(t, i).ok}
    IN  IF hits = {} THEN NoMatch
        ELSE LET i == CHOOSE k \in hits : \A j \in hits : k <= j
                 m == MatchAt(t, i)
             IN  <<m.major, m.minor, m.hash>>

\* The fallback pattern (line 88) captures the hash alone.
search_fallback(t) ==
    LET hits == {i \in 1..Len(t) : MatchAt(t, i).ok}
    IN  IF hits = {} THEN NoMatch
        ELSE LET i == CHOOSE k \in hits : \A j \in hits : k <= j
             IN  <<MatchAt(t, i).hash>>

ExtractFailed == <<"sys.exit">>

\* llvm_revision with a fault: the first group instead of the third
llvm_revision_group1(t) ==
    IF search_primary(t) # NoMatch THEN search_primary(t)[1]
    ELSE IF search_fallback(t) # NoMatch THEN search_fallback(t)[1]
    ELSE ExtractFailed

\* lines 80-95
llvm_revision(t) ==
    IF search_primary(t) # NoMatch THEN search_primary(t)[3]
    ELSE IF search_fallback(t) # NoMatch THEN search_fallback(t)[1]
    ELSE ExtractFailed

\* DEPS texts. A package name with the given field lengths and hash:
PackageName(nMajor, nMinor, hash, nBuild) ==
    <<"clang-llvmorg-">> \o [i \in 1..nMajor |-> "1"] \o <<"-init-">>
      \o [i \in 1..nMinor |-> "9"] \o <<"-">> \o hash \o <<"-">>
      \o [i \in 1..nBuild |-> "1"]

\* a package name whose hash is too short to match
ShortName == PackageName(1, 1, <<"a", "f", "1">>, 1)

\* hashes of every length around the minimum, ending in letters, digits or
\* a character that is neither; and a branch name
Hashes ==
    { [i \in 1..n |-> "f"] \o tail :
        n \in (MinHashLen - 3)..(MaxHashLen - 2),
        tail \in [1..2 -> {"a", "1", "_"}] }
      \cup { <<"m", "a", "i", "n">> }

DepsTexts ==
    { pre \o PackageName(a, b, h, c) \o post :
        pre \in {<<>>, <<"'">>, ShortName \o <<"'">>},
        a \in 0..MaxDigits, b \in 0..MaxDigits, c \in 0..MaxDigits,
        h \in Hashes,
        post \in {<<>>, <<"'">> \o PackageName(1, 1, [i \in 1..MinHashLen |-> "f"], 1)} }

\* the DEPS texts the pipeline is run on
PipelineTexts ==
    { <<"'">> \o PackageName(1, 1, [i \in 1..MinHashLen |-> "a"], 1) \o <<"'">>,
      <<"'">> \o ShortName \o <<"'">> }

---------------------------------------------------------------------------
(* verify_toolchain: the toolchain locator *)

\* verify_toolchain with a fault: the release build is tried first
verify_toolchain_release_first(b, r) ==
    IF r.exists /\ r.bin THEN "release"
    ELSE IF b.exists /\ b.bin THEN "bootstrap"
    ELSE "none"

\* lines 132-146: "none" stands for sys.exit(1)
verify_toolchain(b, r) ==
    IF b.exists /\ b.bin THEN "bootstrap"
    ELSE IF r.exists /\ r.bin THEN "release"
    ELSE "none"

---------------------------------------------------------------------------
(* package_toolchain: verification, staging, aliases, archive *)

\* missing_wanted with a fault: the loop stops at the first miss
missing_wanted_first_only(dir, w) ==
    LET miss == {x \in w : ~IsGlob(x) /\ ~PathExists(dir, x)}
    IN  IF miss = {} THEN {} ELSE {CHOOSE x \in miss : TRUE}

\* lines 350-355: every wanted file the loop logs as missing
missing_wanted(dir, w) == {x \in w : ~IsGlob(x) /\ ~PathExists(dir, x)}

\* found_all_wanted_files with a fault: the flag is never cleared
found_all_wanted_files_kept(miss) == TRUE

\* lines 350-357: the flag tested after the loop
found_all_wanted_files(miss) == miss = {}

\* fnmatch.fnmatch(name, pat), token by token: "*" matches any run of
\* tokens, every other token matches itself
RECURSIVE fnmatch(_, _)
fnmatch(name, pat) ==
    IF pat = <<>> THEN name = <<>>
    ELSE IF pat[1] = "*"
      THEN \E k \in 0..Len(name) : fnmatch(SubSeq(name, k + 1, Len(name)), Tail(pat))
    ELSE name # <<>> /\ name[1] = pat[1] /\ fnmatch(Tail(name), Tail(pat))

\* lines 370-372: the files of the tree that match at least one rule
wanted_files(dir, w) == {f \in dir.files : \E pat \in w : fnmatch(f, pat)}

\* LLVM_RELEASE_DIR.rglob('*'): every file and directory below the root
rglob(dir) ==
    IF ~dir.exists THEN {}
    ELSE dir.files \cup (IF dir.bin THEN {<<"bin/">>} ELSE {})

\* line 362, "for root, dirs, files in ...": unpacking one Path into three
\* names raises TypeError, a Path not being iterable
unpack_entry(e) == "TypeError"

\* lines 362-393: the copy loop. Its body runs for an entry that unpacks;
\* the first entry that does not ends the loop with the exception.
copy_loop(dir, st) ==
    IF \E e \in rglob(dir) : unpack_entry(e) = "TypeError"
      THEN [outcome |-> "TypeError", staging |-> st]
      ELSE [outcome |-> "ok", staging |-> st]

BinDirExists(st) == st.exists /\ \E f \in st.files : f[1] = "bin/"
Occupied(st, path) == path \in st.files \/ \E l \in st.links : l.path = path
BinPath(name) == <<"bin/", name>>

\* one try block of symlink_to calls: FileExistsError ends the block
RECURSIVE try_symlinks(_, _)
try_symlinks(st, plan) ==
    IF plan = <<>> THEN st
    ELSE IF Occupied(st, plan[1].path) THEN st
    ELSE try_symlinks([st EXCEPT !.links = @ \cup {plan[1]}], Tail(plan))

Link(name, target) == [path |-> BinPath(name), target |-> target]

\* lines 399-407
clang_aliases(st) ==
    <<Link("clang++", "clang"), Link("clang-cl", "clang")>>
      \o (IF BinPath("lld") \in st.files
            THEN <<Link("ld.lld", "lld"), Link("ld64.lld", "lld"),
                   Link("lld-link", "lld"), Link("wasm-ld", "lld")>>
            ELSE <<>>)
      \o (IF BinPath("llvm-readobj") \in st.files
            THEN <<Link("llvm-readelf", "llvm-readobj")>>
            ELSE <<>>)

\* lines 414-416
objcopy_aliases(st) ==
    IF BinPath("llvm-objcopy") \in st.files
      THEN <<Link("llvm-strip", "llvm-objcopy"),
             Link("llvm-install-name-tool", "llvm-objcopy")>>
      ELSE <<>>

\* lines 421-430: the cros triple directories
Triples ==
    << [old |-> "armv7-unknown-linux-gnueabihf", new |-> "armv7a-cros-linux-gnueabihf"],
       [old |-> "aarch64-unknown-linux-gnu", new |-> "aarch64-cros-linux-gnu"],
       [old |-> "x86_64-unknown-linux-gnu", new |-> "x86_64-cros-linux-gnu"] >>

LibDir(name) == <<"lib/clang/", RELEASE_VERSION, "/lib/", name>>
LibDirExists(st, name) ==
    \/ \E f \in st.files : Len(f) >= 4 /\ SubSeq(f, 1, 4) = LibDir(name)
    \/ \E l \in st.links : l.path = LibDir(name)

RECURSIVE triple_links(_, _)
triple_links(st, i) ==
    IF i > Len(Triples) THEN st
    ELSE triple_links(
           IF LibDirExists(st, Triples[i].old) /\ ~LibDirExists(st, Triples[i].new)
             THEN [st EXCEPT !.links =
                     @ \cup {[path |-> LibDir(Triples[i].new), target |-> Triples[i].old]}]
             ELSE st,
           i + 1)

\* lines 396-430: a symlink_to in a directory that does not exist raises
\* FileNotFoundError, which no handler catches
make_aliases(p, st) ==
    IF p = "win32" THEN [outcome |-> "ok", staging |-> st]
    ELSE IF ~BinDirExists(st) THEN [outcome |-> "FileNotFoundError", staging |-> st]
    ELSE LET s1 == try_symlinks(st, clang_aliases(st))
             s2 == IF p = "linux"
                     THEN triple_links(try_symlinks(s1, objcopy_aliases(s1)), 1)
                     ELSE s1
         IN  [outcome |-> "ok", staging |-> s2]

\* lines 433-439: the members of the archive, each under package_name
archive_members(st) ==
    IF ~st.exists THEN {}
    ELSE {[name |-> package_name \o f, kind |-> "file"] : f \in st.files}
           \cup {[name |-> package_name \o l.path, kind |-> "symlink"] : l \in st.links}

\* lines 362-445: everything after verification. The result is the state
\* the run ends in, the package directory and the archive file.
stage_and_archive(p, dir, st, ar) ==
    LET copied == copy_loop(dir, st)
        linked == make_aliases(p, copied.staging)
        packed == [exists |-> TRUE, members |-> archive_members(linked.staging)]
    IN  IF copied.outcome # "ok"
          THEN [state |-> "Failed", cause |-> copied.outcome,
                passed |-> <<>>, staging |-> copied.staging, archive |-> ar]
        ELSE IF linked.outcome # "ok"
          THEN [state |-> "Failed", cause |-> linked.outcome,
                passed |-> <<>>, staging |-> linked.staging, archive |-> ar]
        ELSE IF ~linked.staging.exists
          \* shutil.rmtree of a directory that does not exist
          THEN [state |-> "Failed", cause |-> "FileNotFoundError",
                passed |-> <<"Staged", "Archived">>,
                staging |-> linked.staging, archive |-> packed]
        ELSE [state |-> "Done", cause |-> "return",
              passed |-> <<"Staged", "Archived">>,
              staging |-> NoStaging, archive |-> packed]

---------------------------------------------------------------------------
(* The process *)

Stages == <<"sync", "extract", "build", "locate", "package">>

fsVars == <<chromiumExists, bootstrap, release, staging, archive>>
pkgVars == <<stamp, want, reported, pkgState, pkgTrace>>
runVars == <<platform, mode, runs, stagingAtStart, archiveAtStart>>
infoVars == <<depsText, revision, printed, buildResult, toolchainDir>>

Init ==
    /\ platform \in Platforms
    /\ mode = "build"
    /\ pc = "idle"
    /\ runs = 0
    /\ trace = <<>>
    /\ status = -1
    /\ cause = ""
    /\ chromiumExists \in BOOLEAN
    /\ depsText = <<>>
    /\ revision = <<>>
    /\ printed = <<>>
    /\ buildResult = "none"
    /\ bootstrap \in (IF chromiumExists THEN BootstrapTrees ELSE {NoDir})
    /\ release \in (IF chromiumExists THEN ReleaseTrees(platform) ELSE {NoDir})
    /\ toolchainDir = "none"
    /\ stamp = [exists |-> FALSE, text |-> <<>>]
    /\ staging \in {NoStaging, StaleStaging}
    /\ archive = NoArchive
    /\ stagingAtStart = staging
    /\ archiveAtStart = archive
    /\ want = {}
    /\ reported = {}
    /\ pkgState = "Idle"
    /\ pkgTrace = <<"Idle">>

\* sys.exit(st), an uncaught exception (status 1), or the return of main
Exit(st, why) ==
    /\ pc' = "exited"
    /\ status' = st
    /\ cause' = why

\* lines 448-475: main parses the arguments and starts the chosen mode
main ==
    /\ pc \in {"idle", "exited"}
    /\ runs < MaxRuns
    /\ runs' = runs + 1
    /\ mode' \in Modes
    /\ pc' = "sync"
    /\ trace' = <<>>
    /\ status' = -1
    /\ cause' = ""
    /\ depsText' = <<>>
    /\ revision' = <<>>
    /\ printed' = <<>>
    /\ buildResult' = "none"
    /\ toolchainDir' = "none"
    /\ stamp' = [exists |-> FALSE, text |-> <<>>]
    /\ stagingAtStart' = staging
    /\ archiveAtStart' = archive
    /\ want' = {}
    /\ reported' = {}
    /\ pkgState' = "Idle"
    /\ pkgTrace' = <<"Idle">>
    /\ UNCHANGED <<platform, fsVars>>

\* lines 56-67: git clone
git_clone ==
    /\ pc = "sync"
    /\ ~chromiumExists
    /\ trace' = Append(trace, "sync")
    /\ \E ok \in BOOLEAN :
         IF ok
           THEN /\ chromiumExists' = TRUE
                /\ pc' = "deps"
                /\ UNCHANGED <<status, cause>>
           ELSE /\ Exit(1, "CalledProcessError")
                /\ UNCHANGED chromiumExists
    /\ UNCHANGED <<bootstrap, release, staging, archive, pkgVars, runVars, infoVars>>

\* lines 51-55: git fetch, git checkout, git pull, each fatal when it fails
git_update(at, next) ==
    /\ pc = at
    /\ chromiumExists
    /\ trace' = IF at = "sync" THEN Append(trace, "sync") ELSE trace
    /\ \E ok \in BOOLEAN :
         IF ok
           THEN pc' = next /\ UNCHANGED <<status, cause>>
           ELSE Exit(1, "CalledProcessError")
    /\ UNCHANGED <<fsVars, pkgVars, runVars, infoVars>>

git_fetch == git_update("sync", "git_checkout")
git_checkout == git_update("git_checkout", "git_pull")
git_pull == git_update("git_pull", "deps")

\* lines 71-77: DEPS must exist; its text is read
read_deps ==
    /\ pc = "deps"
    /\ trace' = Append(trace, "extract")
    /\ \E exists \in BOOLEAN :
         IF exists
           THEN /\ depsText' \in PipelineTexts
                /\ pc' = "extract"
                /\ UNCHANGED <<status, cause>>
           ELSE /\ Exit(1, "sys.exit")
                /\ UNCHANGED depsText
    /\ UNCHANGED <<fsVars, pkgVars, runVars, revision, printed, buildResult, toolchainDir>>

\* after_info with a fault: every mode runs the build
after_info_always_build(m) == "build"

\* lines 468-475: where main goes once get_chromium_and_llvm_info has returned
after_info(m) ==
    CASE m = "revision_only" -> "print"
      [] m = "package_only" -> "package"
      [] OTHER -> "build"

\* lines 79-97
extract_revision ==
    /\ pc = "extract"
    /\ IF llvm_revision(depsText) = ExtractFailed
         THEN /\ Exit(1, "sys.exit")
              /\ UNCHANGED revision
         ELSE /\ revision' = llvm_revision(depsText)
              /\ pc' = after_info(mode)
              /\ UNCHANGED <<status, cause>>
    /\ UNCHANGED <<fsVars, pkgVars, runVars, trace, depsText, printed, buildResult,
                   toolchainDir>>

\* lines 469-470
print_revision ==
    /\ pc = "print"
    /\ printed' = revision
    /\ Exit(0, "return")
    /\ UNCHANGED <<fsVars, pkgVars, runVars, trace, depsText, revision, buildResult,
                   toolchainDir>>

\* after_build with a fault: a failed build is not fatal
after_build_tolerant(ok) == "locate"

\* lines 120-124: a failed build is sys.exit(1)
after_build(ok) == IF ok THEN "locate" ELSE "exited"

\* lines 100-124: build.py runs as a black box; it leaves the two
\* installation directories in any state
build_llvm ==
    /\ pc = "build"
    /\ trace' = Append(trace, "build")
    /\ \E ok \in BOOLEAN :
         /\ buildResult' = IF ok THEN "ok" ELSE "failed"
         /\ IF after_build(ok) = "exited"
              THEN Exit(1, "sys.exit")
              ELSE pc' = after_build(ok) /\ UNCHANGED <<status, cause>>
    /\ bootstrap' \in BootstrapTrees
    /\ release' \in ReleaseTrees(platform)
    /\ UNCHANGED <<chromiumExists, staging, archive, pkgVars, runVars, depsText,
                   revision, printed, toolchainDir>>

\* lines 127-146 and 156-159
locate_toolchain ==
    /\ pc = "locate"
    /\ trace' = Append(trace, "locate")
    /\ toolchainDir' = verify_toolchain(bootstrap, release)
    /\ IF toolchainDir' = "none"
         THEN Exit(1, "sys.exit")
         ELSE Exit(0, "return")
    /\ UNCHANGED <<fsVars, pkgVars, runVars, depsText, revision, printed, buildResult>>

\* package_toolchain ends in Failed
PkgFail(why) ==
    /\ Exit(1, why)
    /\ pkgState' = "Failed"
    /\ pkgTrace' = Append(pkgTrace, "Failed")

\* LLVM_RELEASE_DIR with a fault: the directory the locator would return
LLVM_RELEASE_DIR_located ==
    IF verify_toolchain(bootstrap, release) = "bootstrap" THEN bootstrap ELSE release

\* line 191: the directory package_toolchain verifies and copies from
LLVM_RELEASE_DIR == release

\* lines 181-195: update.py must import and the release directory exist
pkg_import ==
    /\ pc = "package"
    /\ trace' = Append(trace, "package")
    /\ \E importable \in BOOLEAN :
         IF importable /\ LLVM_RELEASE_DIR.exists
           THEN /\ pc' = "pkg_stamp"
                /\ UNCHANGED <<status, cause, pkgState, pkgTrace>>
           ELSE PkgFail("sys.exit")
    /\ UNCHANGED <<fsVars, runVars, infoVars, stamp, want, reported>>

\* stamp_matches with a fault: the stamp is not compared
stamp_matches_any(text) == TRUE

\* lines 200-201: stamp != PACKAGE_VERSION, after rstrip
stamp_matches(text) == rstrip(text) = <<PACKAGE_VERSION>>

\* lines 199-203: open(STAMP_FILE) raises when the file is absent
pkg_stamp ==
    /\ pc = "pkg_stamp"
    /\ stamp' \in StampFiles
    /\ IF ~stamp'.exists THEN PkgFail("FileNotFoundError")
       ELSE IF ~stamp_matches(stamp'.text) THEN PkgFail("sys.exit")
       ELSE /\ pc' = "pkg_clean"
            /\ UNCHANGED <<status, cause, pkgState, pkgTrace>>
    /\ UNCHANGED <<fsVars, runVars, infoVars, trace, want, reported>>

\* lines 205-207: an existing package directory is removed
pkg_clean ==
    /\ pc = "pkg_clean"
    /\ staging' = IF staging.exists THEN NoStaging ELSE staging
    /\ pc' = "pkg_manifest"
    /\ UNCHANGED <<chromiumExists, bootstrap, release, archive, pkgVars, runVars,
                   infoVars, trace, status, cause>>

\* lines 209-347
pkg_manifest ==
    /\ pc = "pkg_manifest"
    /\ want' = Manifest(platform)
    /\ pkgState' = "ManifestBuilt"
    /\ pkgTrace' = Append(pkgTrace, "ManifestBuilt")
    /\ pc' = "pkg_verify"
    /\ UNCHANGED <<fsVars, runVars, infoVars, trace, status, cause, stamp, reported>>

\* lines 349-359
pkg_verify ==
    /\ pc = "pkg_verify"
    /\ reported' = missing_wanted(LLVM_RELEASE_DIR, want)
    /\ IF found_all_wanted_files(reported')
         THEN /\ pkgState' = "Verified"
              /\ pkgTrace' = Append(pkgTrace, "Verified")
              /\ pc' = "pkg_stage"
              /\ UNCHANGED <<status, cause>>
         ELSE PkgFail("sys.exit")
    /\ UNCHANGED <<fsVars, runVars, infoVars, trace, stamp, want>>

\* lines 361-445, and the return of main
pkg_stage ==
    /\ pc = "pkg_stage"
    /\ LET r == stage_and_archive(platform, LLVM_RELEASE_DIR, staging, archive)
       IN  /\ staging' = r.staging
           /\ archive' = r.archive
           /\ pkgState' = r.state
           /\ pkgTrace' = pkgTrace \o r.passed \o <<r.state>>
           /\ Exit(IF r.state = "Done" THEN 0 ELSE 1, r.cause)
    /\ UNCHANGED <<chromiumExists, bootstrap, release, runVars, infoVars, trace,
                   stamp, want, reported>>

Next ==
    \/ main
    \/ git_clone
    \/ git_fetch
    \/ git_checkout
    \/ git_pull
    \/ read_deps
    \/ extract_revision
    \/ print_revision
    \/ build_llvm
    \/ locate_toolchain
    \/ pkg_import
    \/ pkg_stamp
    \/ pkg_clean
    \/ pkg_manifest
    \/ pkg_verify
    \/ pkg_stage

Spec == Init /\ [][Next]_vars

\* The revision extractor on its own: DEPS has been read, with any of the
\* texts of DepsTexts, and the revision is extracted and printed.
InitRev ==
    /\ platform = "linux"
    /\ mode = "revision_only"
    /\ pc = "extract"
    /\ runs = 1
    /\ trace = <<"sync", "extract">>
    /\ status = -1
    /\ cause = ""
    /\ chromiumExists = TRUE
    /\ depsText \in DepsTexts
    /\ revision = <<>>
    /\ printed = <<>>
    /\ buildResult = "none"
    /\ bootstrap = NoDir
    /\ release = NoDir
    /\ toolchainDir = "none"
    /\ stamp = [exists |-> FALSE, text |-> <<>>]
    /\ staging = NoStaging
    /\ archive = NoArchive
    /\ stagingAtStart = staging
    /\ archiveAtStart = archive
    /\ want = {}
    /\ reported = {}
    /\ pkgState = "Idle"
    /\ pkgTrace = <<"Idle">>

NextRev ==
    \/ extract_revision
    \/ print_revision

SpecRev == InitRev /\ [][NextRev]_vars

---------------------------------------------------------------------------
(* Properties *)

\* the literal rules of the host's manifest that the release tree lacks
LiteralsMissing ==
    {w \in Manifest(platform) : "*" \notin Range(w) /\ ~(release.exists /\ w \in release.files)}

\* the verification loop of package_toolchain has run in this invocation
VerificationRan == want # {} /\ pc \in {"pkg_stage", "exited"}

\* C1: manifest verification checks every non-wildcard rule under the
\* toolchain root and reports every missing path, not only the first; when
\* at least one literal rule is missing the run fails, no file is copied
\* into the staging tree and no archive file is created by the run.
C1_VerificationReportsEveryMiss ==
    VerificationRan =>
      /\ reported = LiteralsMissing
      /\ LiteralsMissing # {} =>
           /\ pc = "exited" /\ status = 1 /\ pkgState = "Failed"
           /\ staging = NoStaging
           /\ archive = archiveAtStart /\ ~archive.exists

C1_Witness ==
    /\ VerificationRan
    /\ pkgState = "Failed"
    /\ Cardinality(reported) >= 2
    /\ <<"bin/", "lld">> \in reported

\* C2: after any sequence of runs, a packaging run that ends in failure
\* leaves no archive file at the output path; only the package directory
\* may remain.
C2_FailedRunLeavesNoArchive ==
    (pc = "exited" /\ pkgState = "Failed") => ~archive.exists /\ archive = archiveAtStart

C2_Witness ==
    /\ runs >= 2
    /\ pc = "exited" /\ pkgState = "Failed"
    /\ cause = "TypeError"
    /\ "Verified" \in Range(pkgTrace)

\* C3 as stated: when the external build step fails but the locator can
\* still resolve a bootstrap installation, the pipeline is not ended by the
\* build failure (it goes on as a partial success).
C3_Original ==
    (buildResult = "failed" /\ verify_toolchain(bootstrap, release) = "bootstrap")
      => ~(pc = "exited" /\ status = 1)

\* C3 as amended: a failure of the external build step is fatal whether or
\* not a bootstrap installation is resolvable: the process exits with
\* status 1 and neither the locator nor the packager runs.
C3_BuildFailureIsFatal ==
    buildResult = "failed" =>
      /\ pc = "exited" /\ status = 1
      /\ trace = <<"sync", "extract", "build">>
      /\ toolchainDir = "none"
      /\ pkgState = "Idle"

C3_Witness ==
    /\ buildResult = "failed"
    /\ verify_toolchain(bootstrap, release) = "bootstrap"
    /\ pc = "exited"

\* the stamp read by this invocation equals the expected package version
StampAgrees == stamp.exists /\ rstrip(stamp.text) = <<PACKAGE_VERSION>>

\* C4: for a toolchain root in which every literal manifest rule exists and
\* whose stamp equals the expected package version, a packaging run passes
\* through ManifestBuilt, Verified, Staged and Archived in that order and
\* ends in Done, with the archive written and the staging tree removed.
C4_CompleteTreeReachesDone ==
    (pc = "exited" /\ mode = "package_only" /\ StampAgrees /\ LiteralsMissing = {})
      => /\ pkgState = "Done" /\ status = 0
         /\ pkgTrace = <<"Idle", "ManifestBuilt", "Verified", "Staged", "Archived", "Done">>
         /\ archive.exists
         /\ ~staging.exists

\* C5: a stamp that differs from the expected package version is fatal and
\* is found before any staging work: the run fails without building the
\* manifest, without removing an existing package directory, without
\* copying a file and without creating an archive.
C5_StampMismatchFailsFirst ==
    (stamp.exists /\ rstrip(stamp.text) # <<PACKAGE_VERSION>>) =>
      /\ pc = "exited" /\ status = 1
      /\ pkgTrace = <<"Idle", "Failed">>
      /\ want = {}
      /\ staging = stagingAtStart
      /\ archive = archiveAtStart

C5_Witness ==
    /\ stamp.exists /\ rstrip(stamp.text) # <<PACKAGE_VERSION>>
    /\ pkgState = "Failed"
    /\ stagingAtStart.exists /\ staging.exists

\* C6: the locator returns the bootstrap-install directory whenever it
\* exists with a bin subdirectory, even if a release-build directory also
\* exists; the release-build directory when only that one exists with a bin
\* subdirectory; and fails when neither does.
C6_LocatorPrefersBootstrap ==
    "locate" \in Range(trace) =>
      /\ (bootstrap.exists /\ bootstrap.bin)
           => toolchainDir = "bootstrap" /\ status = 0
      /\ (~(bootstrap.exists /\ bootstrap.bin) /\ release.exists /\ release.bin)
           => toolchainDir = "release" /\ status = 0
      /\ (~(bootstrap.exists /\ bootstrap.bin) /\ ~(release.exists /\ release.bin))
           => toolchainDir = "none" /\ status = 1

C6_Witness ==
    /\ "locate" \in Range(trace)
    /\ toolchainDir = "bootstrap"
    /\ release.exists /\ release.bin

\* the directory the locator returned holds the regular file bin/<tool>
HasTool(tool) ==
    \/ toolchainDir = "bootstrap" /\ <<"bin/", tool>> \in bootstrap.files
    \/ toolchainDir = "release" /\ <<"bin/", tool>> \in release.files

\* C7: the locator reports success only for a directory in which the C
\* compiler driver, the C++ compiler driver and the linker are regular
\* files.
C7_LocatorChecksExecutables ==
    ("locate" \in Range(trace) /\ status = 0) =>
      \A tool \in {"clang", "clang++", "lld"} : HasTool(tool)

StageIndex(s) == CHOOSE i \in 1..Len(Stages) : Stages[i] = s

\* C8, on states: the stages entered are in the fixed order, each at most
\* once; a failure ends the process with a non-zero status in the stage
\* that failed; package-only mode never builds and revision-only mode
\* neither builds nor packages.
C8_StagesInOrder ==
    /\ \A i, j \in 1..Len(trace) :
         i < j => StageIndex(trace[i]) < StageIndex(trace[j])
    /\ (pc = "exited" /\ cause # "return") => status = 1
    /\ (pc = "exited" /\ status = 0) => cause = "return"
    /\ cause = "CalledProcessError" => trace = <<"sync">>
    /\ (pc = "exited" /\ "extract" \in Range(trace) /\ revision = <<>>)
         => trace = <<"sync", "extract">> /\ status = 1
    /\ buildResult = "failed" => trace = <<"sync", "extract", "build">> /\ status = 1
    /\ mode = "package_only" => "build" \notin Range(trace) /\ buildResult = "none"
    /\ mode = "revision_only" =>
         /\ "build" \notin Range(trace) /\ buildResult = "none"
         /\ "package" \notin Range(trace) /\ pkgState = "Idle"
    /\ mode # "build" => "locate" \notin Range(trace)

\* C8, on steps: once the process has exited, no stage runs until main is
\* started again.
C8_NoStageAfterExit ==
    pc = "exited" => (trace' = trace \/ (runs' = runs + 1 /\ trace' = <<>>))

\* C8: in every mode the stages run at most once each and in the fixed
\* order; when a stage fails no later stage runs, nothing is retried and
\* the process ends with a non-zero status; package-only mode never invokes
\* the build and revision-only mode never invokes the build or the packager.
C8_PipelineOrder == [](C8_StagesInOrder) /\ [][C8_NoStageAfterExit]_vars

C8_Witness ==
    /\ mode = "build"
    /\ trace = <<"sync", "extract", "build", "locate">>
    /\ pc = "exited" /\ status = 1

\* t[k] with anything outside the text read as a character that matches
\* nothing
Char(t, k) == IF k \in 1..Len(t) THEN t[k] ELSE "<none>"

\* the text t holds, from position i, a package name
\* clang-llvmorg-<digits>-init-<digits>-<hash>-<digits> whose hash is t[a..b]
NameAt(t, i, a, b) ==
    /\ Char(t, i) = "clang-llvmorg-"
    /\ \E m \in (i + 2)..(a - 3) :
         /\ t[m] = "-init-"
         /\ \A k \in (i + 1)..(m - 1) : t[k] \in Digits
         /\ \A k \in (m + 1)..(a - 2) : t[k] \in Digits
    /\ Char(t, a - 1) = "-"
    /\ b - a + 1 >= MinHashLen
    /\ \A k \in a..b : t[k] \in Alnum
    /\ Char(t, b + 1) = "-"
    /\ Char(t, b + 2) \in Digits

Names(t) ==
    LET starts == {i \in 1..Len(t) : t[i] = "clang-llvmorg-"}
        firsts == {a \in 1..Len(t) : Char(t, a - 1) = "-"}
        lasts == {b \in 1..Len(t) : Char(t, b + 1) = "-"}
    IN  {n \in starts \X firsts \X lasts : NameAt(t, n[1], n[2], n[3])}

\* C9: for a text holding a package name of the pattern, the extractor
\* returns exactly the hash of the leftmost one, alphanumeric and at least
\* 8 long (the primary and the fallback pattern accept the same texts and
\* capture the same hash); for a text holding none it fails.
C9_RevisionIsCapturedHash ==
    pc # "extract" =>
      LET names == Names(depsText)
      IN  IF names = {}
        THEN pc = "exited" /\ status = 1 /\ revision = <<>>
        ELSE /\ \E n \in names :
                  /\ \A o \in names : n[1] <= o[1]
                  /\ revision = SubSeq(depsText, n[2], n[3])
             /\ Len(revision) >= MinHashLen
             /\ \A k \in 1..Len(revision) : revision[k] \in Alnum

C9_Witness ==
    /\ pc = "exited" /\ status = 0
    /\ printed = revision
    /\ Len(revision) = MinHashLen
    /\ \A n \in Names(depsText) : n[1] > 1
    /\ Cardinality({n[1] : n \in Names(depsText)}) >= 2

\* the relative paths of an unpacked archive, below the package directory
Unpacked(ar) == {SubSeq(m.name, Len(package_name) + 1, Len(m.name)) : m \in ar.members}

\* C10: packaging a tree that holds exactly the mandatory files and
\* unpacking the archive gives back the relative paths of the tree.
C10_RoundTrip ==
    (pc = "exited" /\ mode = "package_only" /\ StampAgrees
       /\ release.exists /\ release.files = Mandatory(platform))
      => archive.exists /\ Unpacked(archive) = release.files

\* a packaging run has passed verification and ended
RanPastVerification == pc = "exited" /\ "Verified" \in Range(pkgTrace)

\* the names of the archive's members of the given kind
MemberNames(kind) == {m.name : m \in {x \in archive.members : x.kind = kind}}

\* the file f of the toolchain root is in the package directory or in the
\* archive, at the same relative path
FileDelivered(f) ==
    \/ f \in staging.files
    \/ archive.exists /\ (package_name \o f) \in MemberNames("file")

\* C11: a file under the toolchain root is copied into the staging tree if
\* and only if its relative path matches at least one manifest rule, literal
\* or glob, and it is copied to the identical relative path; a glob rule
\* that matches no file causes no failure.
C11_CopiedIffWanted ==
    RanPastVerification =>
      /\ \A f \in release.files : FileDelivered(f) <=> f \in wanted_files(release, want)
      /\ (\E pat \in want : "*" \in Range(pat) /\ wanted_files(release, {pat}) = {})
           => status = 0

\* the link is in the package directory or in the archive
LinkDelivered(l) ==
    \/ l \in staging.links
    \/ archive.exists /\ (package_name \o l.path) \in MemberNames("symlink")

\* the aliases of the executable directory, each with the file it points at
Aliases(p) ==
    {Link("clang++", "clang"), Link("clang-cl", "clang"),
     Link("ld.lld", "lld"), Link("ld64.lld", "lld"), Link("lld-link", "lld"),
     Link("wasm-ld", "lld"), Link("llvm-readelf", "llvm-readobj")}
      \cup (IF p = "linux"
              THEN {Link("llvm-strip", "llvm-objcopy"),
                    Link("llvm-install-name-tool", "llvm-objcopy")}
              ELSE {})

\* C12: each alias of the staged executable directory exists only if its
\* target was staged, and is made whenever its target was staged, no alias
\* keeping the others from being made; on Linux the same holds of the
\* architecture-triple directory links.
C12_AliasesFollowTargets ==
    (RanPastVerification /\ platform # "win32") =>
      /\ \A l \in Aliases(platform) :
           LinkDelivered(l) <=> <<"bin/", l.target>> \in wanted_files(release, want)
      /\ platform = "linux" =>
           \A i \in 1..Len(Triples) :
             LinkDelivered([path |-> LibDir(Triples[i].new), target |-> Triples[i].old])
               <=> \E f \in wanted_files(release, want) :
                     Len(f) >= 4 /\ SubSeq(f, 1, 4) = LibDir(Triples[i].old)

\* C13: the archive's members are exactly the regular files and symbolic
\* links of the staging tree, links stored as links and no directory stored
\* as a member. (The order of the members is that of sorted() at line 435;
\* the statement below leaves it out and is implied by the claim.)
C13_ArchiveHoldsStagedTree ==
    RanPastVerification =>
      /\ archive.exists
      /\ \A m \in archive.members : m.kind \in {"file", "symlink"}
      /\ MemberNames("file") = {package_name \o f : f \in wanted_files(release, want)}
      /\ \A n \in MemberNames("symlink") : n \notin MemberNames("file")

\* the rule w with the placeholder replaced is in the manifest
Wanted(w) == [i \in 1..Len(w) |-> IF w[i] = "$V" THEN RELEASE_VERSION ELSE w[i]] \in want

\* C14: the manifest used for verification and staging is the common base
\* rule set extended by the host's rule sets, with the version placeholder
\* replaced by the release version in every rule: the Linux-only rules are
\* present exactly on Linux hosts, the linker and archiver tool names
\* exactly on hosts that are not Windows, every tool name under bin/ ends
\* in .exe exactly on Windows hosts, and no rule holds the placeholder when
\* verification or matching starts.
C14_ManifestFollowsHost ==
    want # {} =>
      /\ \A w \in want : "$V" \notin Range(w)
      /\ \A w \in WantBase(platform) : Wanted(w)
      /\ \A w \in WantLinux : Wanted(w) <=> platform = "linux"
      /\ \A tool \in {"lld", "llvm-ar"} : <<"bin/", tool>> \in want <=> platform # "win32"
      /\ \A w \in want : w[1] = "bin/" => (w[Len(w)] = ".exe" <=> platform = "win32")
      /\ \A w \in want :
           \E r \in WantBase(platform) \cup WantWin32 \cup WantNonWin32
                      \cup WantNonDarwin \cup WantLinux :
             /\ Len(r) = Len(w)
             /\ \A i \in 1..Len(w) : w[i] = (IF r[i] = "$V" THEN RELEASE_VERSION ELSE r[i])

C14_Witness ==
    /\ pc = "pkg_verify"
    /\ platform = "win32"
    /\ <<"bin/", "llvm-symbolizer", ".exe">> \in want
    /\ <<"lib/clang/", RELEASE_VERSION, "/include/", "*">> \in want

\* C15: package_toolchain works on the release-build directory only: when
\* that directory does not exist the run fails before the stamp is read,
\* before an existing package directory is removed and before any archive
\* is written, even if a bootstrap installation exists that the locator
\* would return; and verification reports what the release-build directory
\* lacks whatever the bootstrap installation holds.
C15_PackagesReleaseDirOnly ==
    /\ ("package" \in Range(trace) /\ ~release.exists) =>
         /\ pc = "exited" /\ status = 1 /\ cause = "sys.exit"
         /\ pkgTrace = <<"Idle", "Failed">>
         /\ stamp = [exists |-> FALSE, text |-> <<>>]
         /\ want = {}
         /\ staging = stagingAtStart
         /\ archive = archiveAtStart
    /\ VerificationRan =>
         \A w \in want : ("*" \notin Range(w) /\ w \notin release.files) => w \in reported

C15_Witness ==
    /\ "package" \in Range(trace)
    /\ ~release.exists
    /\ verify_toolchain(bootstrap, release) = "bootstrap"
    /\ stagingAtStart.exists
    /\ pc = "exited"

====
